---------------------------- MODULE Spec2Model ----------------------------
(***************************************************************************)
(* A model of the smudh package (github.com/ik5/smudh): the header parser  *)
(* Message.ParseElements, the text decoding dispatch encodeMessage, the    *)
(* fragment set MessageFragmentations and the mutex-guarded store Messages.*)
(*                                                                         *)
(* Octets are naturals 0..255, byte slices and Go strings are sequences of *)
(* octets (nil and the empty slice are both << >>), a hex text is a        *)
(* sequence of one-character strings.                                      *)
(***************************************************************************)
EXTENDS Integers, Sequences, FiniteSets, TLC

VARIABLES
    input,      \* ParseSpec: the (encoding, message) pair handed to ParseElements
    parsed,     \* ParseSpec: what ParseElements gave back, NotParsed before the call
    frag,       \* a caller-owned MessageFragmentations (slice of parts)
    ret,        \* the last call on frag and what it returned
    sret,       \* SeqSpec: the last store call of the single caller and what it returned
    fragments,  \* Messages.fragments: reference key -> MessageFragmentations
    mtx,        \* Messages.mtx: 0 when free, otherwise the goroutine holding it
    pc,         \* per goroutine: position inside its current store call
    op,         \* per goroutine: the store call it is running and its arguments
    loc,        \* per goroutine: the call's locals (info, found, err, snapshot)
    ncalls,     \* number of store calls started so far
    added       \* history: the parts of the calls that returned nil, in return order

vars == <<input, parsed, frag, ret, sret, fragments, mtx, pc, op, loc, ncalls, added>>

parseVars == <<input, parsed>>
fragVars == <<frag, ret>>
storeVars == <<sret, fragments, mtx, pc, op, loc, ncalls, added>>

---------------------------------------------------------------------------
(* Bounds of the model *)

\* longest decoded octet sequence handed to ParseElements in ParseSpec
MaxOctets == 8
\* largest number of members of the caller-owned fragment set
MaxFrag == 3
\* largest number of store calls started in one behaviour of Spec
MaxCalls == 3
\* the most parts with the 16-bit identifier a caller puts among its own parts
MaxOtherElement == 2

---------------------------------------------------------------------------
(* encoding.go: the Encoding enumeration (iota) *)

GSM == 0
ASCII == 1
Binary8Bit1 == 2
Latin1 == 3
Binary8Bit2 == 4
JIS == 5
Cyrillic == 6
Hebrew == 7
UCS2 == 8
Pictogram == 9
ISO2022JP == 10
Reserved1 == 11
Reserved2 == 12
EXTJIS == 13
KSC5601 == 14
GSMExtended == 15
UTF8 == 16

\* udh.go:71
rfc822Element == 32

\* the errors of the package, and the two run-time panics the parser can raise
ErrHexStringMustHaveAnEvenNumberOfChars == "hex string must have an even number of characters"
ErrInvalidByte == "encoding/hex: invalid byte"
ErrUDHLengthExceedsInputLength == "UDH length exceeds input length"
ErrInputTooShortForUDH == "input too short for UDH"
ErrUnsupportedIEI == "unsupported IEI"
ErrBinaryTextLengthIsNotEvenForUTF16Decoding == "binary text length is not even for UTF-16 decoding"
ErrUnsupportedEncoding == "unsupported encoding"
ErrUnknownEncoding == "unknown encoding"
ErrInvalidReferenceNumber == "invalid reference number"
PanicIndexOutOfRange == "panic: runtime error: index out of range"
PanicNilDereference == "panic: runtime error: invalid memory address or nil pointer dereference"

---------------------------------------------------------------------------
(* encoding/hex as ParseElements and encodeMessage use it *)

RECURSIVE Flatten(_)
\* concatenation of a sequence of sequences (bytes.Buffer.WriteString in a loop)
Flatten(ss) ==
    IF ss = << >> THEN << >> ELSE Head(ss) \o Flatten(Tail(ss))

\* hex.EncodeToString's digit table
hextable == <<"0", "1", "2", "3", "4", "5", "6", "7",
              "8", "9", "a", "b", "c", "d", "e", "f">>

\* the value of one hex character, -1 when it is none (hex.fromHexChar)
fromHexChar(c) ==
    CASE c = "0" -> 0 [] c = "1" -> 1 [] c = "2" -> 2 [] c = "3" -> 3
      [] c = "4" -> 4 [] c = "5" -> 5 [] c = "6" -> 6 [] c = "7" -> 7
      [] c = "8" -> 8 [] c = "9" -> 9
      [] c = "a" -> 10 [] c = "b" -> 11 [] c = "c" -> 12
      [] c = "d" -> 13 [] c = "e" -> 14 [] c = "f" -> 15
      [] c = "A" -> 10 [] c = "B" -> 11 [] c = "C" -> 12
      [] c = "D" -> 13 [] c = "E" -> 14 [] c = "F" -> 15
      [] OTHER -> -1

\* hex.DecodeString on an even-length text: the octets, or the invalid-byte error
DecodeString(s) ==
    IF \E i \in 1..Len(s) : fromHexChar(s[i]) = -1
    THEN [err |-> ErrInvalidByte, bytes |-> << >>]
    ELSE [err |-> "nil",
          bytes |-> [i \in 1..(Len(s) \div 2) |->
                        16 * fromHexChar(s[2 * i - 1]) + fromHexChar(s[2 * i])]]

\* hex.EncodeToString: two lowercase digits per octet
EncodeToString(b) ==
    Flatten([i \in 1..Len(b) |-> <<hextable[(b[i] \div 16) + 1], hextable[(b[i] % 16) + 1]>>])

\* the octets of a Go string of ASCII hex digits (string <-> []byte of the digits)
digitOctet(c) ==
    IF c \in {"0","1","2","3","4","5","6","7","8","9"} THEN 48 + fromHexChar(c)
    ELSE IF c \in {"a","b","c","d","e","f"} THEN 87 + fromHexChar(c)
    ELSE 55 + fromHexChar(c)

\* a text of hex digits as the octets of the Go string holding it
StringOctets(s) == [i \in 1..Len(s) |-> digitOctet(s[i])]

---------------------------------------------------------------------------
(* the text decoders encodeMessage dispatches to; a decoded text is the    *)
(* sequence of the UTF-8 octets of the Go string                           *)

\* UTF-8 encoding of one code point below 0x10000
utf8Rune(cp) ==
    IF cp < 128 THEN <<cp>>
    ELSE IF cp < 2048 THEN <<192 + (cp \div 64), 128 + (cp % 64)>>
    ELSE <<224 + (cp \div 4096), 128 + ((cp \div 64) % 64), 128 + (cp % 64)>>

\* gostrutils.GSM0338ToUTF8 on the GSM 03.38 default alphabet: the letters,
\* digits and most punctuation keep their ASCII code, a few positions differ
gsmRune(b) ==
    CASE b = 0 -> 64      \* @
      [] b = 1 -> 163     \* pound sign
      [] b = 2 -> 36      \* $
      [] b = 64 -> 161    \* inverted exclamation mark
      [] OTHER -> b

GSM0338ToUTF8(raw) == Flatten([i \in 1..Len(raw) |-> utf8Rune(gsmRune(raw[i]))])

\* charmap.ISO8859_1 and the other single/multi-byte decoders, which agree
\* with ISO 8859-1 on the 7-bit octets the model's payloads are made of
DecodeCharmap(raw) == Flatten([i \in 1..Len(raw) |-> utf8Rune(raw[i])])

\* unicode.UTF16(BigEndian, IgnoreBOM) on an even-length payload of
\* non-surrogate code units
DecodeUTF16BE(raw) ==
    Flatten([i \in 1..(Len(raw) \div 2) |-> utf8Rune(256 * raw[2 * i - 1] + raw[2 * i])])

---------------------------------------------------------------------------
(* MessageElements and the outcome of a call that returns (value, error)   *)

\* the zero value of MessageElements (var elements MessageElements)
ZeroElements ==
    [HeaderLength |-> 0, Element |-> 0, ElementLength |-> 0, Reference |-> << >>,
     TotalParts |-> 0, CurrentPart |-> 0, RawMessage |-> << >>, Message |-> << >>,
     Encoding |-> 0, Standalone |-> FALSE]

\* a call's outcome: kind "ok" with the part in elem, kind "err" with the error
\* value, kind "panic" when the goroutine panics instead of returning
Ok(e) == [kind |-> "ok", err |-> "nil", elem |-> <<e>>]
Err(x) == [kind |-> "err", err |-> x, elem |-> << >>]
Panic(x) == [kind |-> "panic", err |-> x, elem |-> << >>]

\* binary[i] with Go's zero-based index
At(binary, i) == binary[i + 1]

\* whether the zero-based index i is inside the slice (else binary[i] panics)
InRange(binary, i) == i < Len(binary)

\* binary[from:]
SliceFrom(binary, from) == SubSeq(binary, from + 1, Len(binary))

---------------------------------------------------------------------------
(* udh.go:137-243: the decoding dispatch *)

\* setTransformCharmap with a nil *encoding.Decoder: transform.NewReader calls
\* decoder.Reset(), a method promoted from the embedded interface of a nil
\* pointer, so the call panics before anything is read
setTransformCharmapNil(elem) == Panic(PanicNilDereference)

\* setTransformCharmap with a decoder: elem.Message is the decoder's output
setTransformCharmap(elem, text) == Ok([elem EXCEPT !.Message = text])

\* the Binary8Bit1/Binary8Bit2 case: the hex rendering is stored, then
\* setTransformCharmap runs with the decoder variable still nil
encodeBinary(elem) ==
    setTransformCharmapNil(
        [elem EXCEPT !.Message = StringOctets(EncodeToString(elem.RawMessage))])

encodeMessage(elem) ==
    LET enc == elem.Encoding
        raw == elem.RawMessage
    IN  CASE enc \in {GSM, GSMExtended} -> Ok([elem EXCEPT !.Message = GSM0338ToUTF8(raw)])
          [] enc \in {ASCII, UTF8} -> Ok([elem EXCEPT !.Message = raw])
          [] enc = Latin1 -> setTransformCharmap(elem, DecodeCharmap(raw))
          [] enc \in {Binary8Bit1, Binary8Bit2} -> encodeBinary(elem)
          [] enc = UCS2 ->
                IF Len(raw) % 2 # 0
                THEN Err(ErrBinaryTextLengthIsNotEvenForUTF16Decoding)
                ELSE setTransformCharmap(elem, DecodeUTF16BE(raw))
          [] enc \in {Cyrillic, Hebrew, ISO2022JP, KSC5601, JIS, EXTJIS} ->
                setTransformCharmap(elem, DecodeCharmap(raw))
          [] enc \in {Pictogram, Reserved1, Reserved2} -> Err(ErrUnsupportedEncoding)
          [] OTHER -> Err(ErrUnknownEncoding)

---------------------------------------------------------------------------
(* udh.go:79-133: Message.ParseElements *)

\* a mutant of IsUDH: the header length is not compared with the input length
IsUDHAnyLength(binary) ==
    /\ Len(binary) >= 2
    /\ At(binary, 0) > 0
    /\ At(binary, 1) < rfc822Element

\* the classification of udh.go:94: the octets start with a UDH
IsUDH(binary) ==
    /\ Len(binary) >= 2
    /\ At(binary, 0) > 0
    /\ At(binary, 0) < Len(binary) - 1
    /\ At(binary, 1) < rfc822Element

\* the case 0x00 branch: binary[3], binary[4], binary[5] are read with no
\* length check, and an index past the end panics
parse8BitReference(binary, elements) ==
    IF ~InRange(binary, 3) \/ ~InRange(binary, 4) \/ ~InRange(binary, 5)
    THEN Panic(PanicIndexOutOfRange)
    ELSE Ok([elements EXCEPT !.Reference = <<At(binary, 3)>>,
                             !.TotalParts = At(binary, 4),
                             !.CurrentPart = At(binary, 5)])

\* the case 0x08 branch
parse16BitReference(binary, elements) ==
    IF At(binary, 0) < 6
    THEN Err(ErrInputTooShortForUDH)
    ELSE IF ~InRange(binary, 4) \/ ~InRange(binary, 5) \/ ~InRange(binary, 6)
    THEN Panic(PanicIndexOutOfRange)
    ELSE Ok([elements EXCEPT !.Reference = SubSeq(binary, 4, 5),
                             !.TotalParts = At(binary, 5),
                             !.CurrentPart = At(binary, 6)])

\* udh.go:92-125: the header fields and the raw payload, before decoding
parseHeader(binary, encoding) ==
    LET elements == [ZeroElements EXCEPT !.Encoding = encoding]
    IN  IF Len(binary) >= 2
        THEN IF IsUDH(binary)
             THEN LET tmpLength == At(binary, 0)
                  IN  IF tmpLength + 1 > Len(binary)
                      THEN Err(ErrUDHLengthExceedsInputLength)
                      ELSE IF ~InRange(binary, 2)
                      THEN Panic(PanicIndexOutOfRange)
                      ELSE LET hdr == [elements EXCEPT !.HeaderLength = At(binary, 0),
                                                       !.Element = At(binary, 1),
                                                       !.ElementLength = At(binary, 2)]
                               r == CASE hdr.Element = 0 -> parse8BitReference(binary, hdr)
                                      [] hdr.Element = 8 -> parse16BitReference(binary, hdr)
                                      [] OTHER -> Err(ErrUnsupportedIEI)
                           IN  IF r.kind # "ok"
                               THEN r
                               ELSE Ok([r.elem[1] EXCEPT
                                          !.RawMessage = SliceFrom(binary, tmpLength + 1)])
             ELSE Ok([elements EXCEPT !.Standalone = TRUE,
                                      !.Reference = <<0>>,
                                      !.TotalParts = 1,
                                      !.CurrentPart = 1,
                                      !.RawMessage = binary])
        ELSE Ok(elements)

ParseElements(msg, encoding) ==
    IF Len(msg) % 2 # 0
    THEN Err(ErrHexStringMustHaveAnEvenNumberOfChars)
    ELSE LET dec == DecodeString(msg)
         IN  IF dec.err # "nil"
             THEN Err(dec.err)
             ELSE LET h == parseHeader(dec.bytes, encoding)
                  IN  IF h.kind # "ok" THEN h ELSE encodeMessage(h.elem[1])

---------------------------------------------------------------------------
(* ParseSpec: ParseElements applied to every message of a bounded family   *)

\* the goroutines that call the store
Procs == {1, 2}

\* the encoding tags handed to ParseElements: the enumeration and one value
\* outside it
Encodings == 0..17

\* the octets tried as first octet (candidate header length), as second octet
\* (candidate identifier) and as the remaining octets
FirstOctets == {0, 1, 2, 3, 5, 6, 7, 9}
SecondOctets == {0, 1, 8, 32, 65}
RestOctets == {1, 65}

\* the octet sequences of n octets built from these
OctetsOfLen(n) ==
    IF n = 0 THEN {<< >>}
    ELSE IF n = 1 THEN {<<a>> : a \in FirstOctets}
    ELSE {<<x[1], x[2]>> \o x[3] :
            x \in FirstOctets \X SecondOctets \X [1..(n - 2) -> RestOctets]}

\* hex texts that are not the rendering of an octet sequence (odd length, a
\* character that is no hex digit), and one in upper case
OtherTexts ==
    { <<"0">>, <<"0", "5", "0">>, <<"0", "G">>, <<"z", "z", "0", "0">>,
      <<"0", "5", "0", "0", "0", "3", "A", "5", "0", "2", "0", "2", "6", "C">> }

ParseTexts ==
    {EncodeToString(b) : b \in UNION {OctetsOfLen(n) : n \in 0..MaxOctets}} \cup OtherTexts

NotParsed == [kind |-> "none", err |-> "nil", elem |-> << >>]

\* no call made yet on the fragment set or the store
NoRet == [op |-> "none", kind |-> "ok", err |-> "nil", text |-> << >>]

\* a goroutine that is in no store call, and the locals of no call
NoCall == [name |-> "none", encoding |-> 0, msg |-> << >>, info |-> << >>, reference |-> << >>]
NoLocals == [info |-> << >>, found |-> FALSE, kind |-> "ok", err |-> "nil"]

\* the store and its callers as InitMessages leaves them (udh.go:393-400)
StoreInit ==
    /\ sret = NoRet
    /\ fragments = << >>
    /\ mtx = 0
    /\ pc = [p \in Procs |-> "idle"]
    /\ op = [p \in Procs |-> NoCall]
    /\ loc = [p \in Procs |-> NoLocals]
    /\ ncalls = 0
    /\ added = << >>

ParseInit ==
    /\ input \in [encoding : Encodings, msg : ParseTexts]
    /\ parsed = NotParsed
    /\ frag = << >>
    /\ ret = NoRet
    /\ StoreInit

\* one call of Message.ParseElements
Parse ==
    /\ parsed = NotParsed
    /\ parsed' = ParseElements(input.msg, input.encoding)
    /\ UNCHANGED <<input, fragVars, storeVars>>

ParseNext == Parse

ParseSpec == ParseInit /\ [][ParseNext]_vars

\* the decoded octets of the input, when it is an even-length valid hex text
InputOctets == DecodeString(input.msg).bytes

ValidHexInput == Len(input.msg) % 2 = 0 /\ DecodeString(input.msg).err = "nil"

Called == parsed # NotParsed

---------------------------------------------------------------------------
(* Claims about ParseElements *)

\* C2: for every even-length valid-hex input no octet is read past the end of
\* the decoded sequence, and a UDH-classified input with identifier 0x00 and
\* fewer than 6 octets is rejected with an error value.
C2_ShortHeaderRejected ==
    (Called /\ ValidHexInput) =>
        /\ parsed.err # PanicIndexOutOfRange
        /\ (IsUDH(InputOctets) /\ At(InputOctets, 1) = 0 /\ Len(InputOctets) < 6)
              => parsed.kind = "err"

\* C3: with encoding Binary8Bit1 or Binary8Bit2, every input whose header
\* parses is decoded successfully, and the decoded text is the lowercase hex
\* rendering of the raw payload.
C3_BinaryTextIsHex ==
    (/\ Called
     /\ ValidHexInput
     /\ input.encoding \in {Binary8Bit1, Binary8Bit2}
     /\ parseHeader(InputOctets, input.encoding).kind = "ok") =>
        /\ parsed.kind = "ok"
        /\ parsed.elem[1].Message = StringOctets(EncodeToString(parsed.elem[1].RawMessage))

\* the Message Part invariant of a part e parsed from the octets binary
PartInvariant(e, binary) ==
    IF e.Standalone
    THEN e.TotalParts = 1 /\ e.CurrentPart = 1 /\ e.Reference = <<0>>
    ELSE /\ e.Element \in {0, 8}
         /\ e.Element = 0 =>
               /\ Len(e.Reference) = 1
               /\ InRange(binary, 5)
               /\ e.TotalParts = At(binary, 4) /\ e.CurrentPart = At(binary, 5)
         /\ e.Element = 8 =>
               /\ Len(e.Reference) = 2
               /\ InRange(binary, 6)
               /\ e.TotalParts = At(binary, 5) /\ e.CurrentPart = At(binary, 6)

\* C4: every part ParseElements returns satisfies the Message Part invariant,
\* inputs of fewer than 2 octets included.
C4_PartInvariant ==
    parsed.kind = "ok" => PartInvariant(parsed.elem[1], InputOctets)

\* the encodings encodeMessage has a decoder for (all but Pictogram, the two
\* reserved slots and the values outside the enumeration)
SupportedEncodings == (0..16) \ {Pictogram, Reserved1, Reserved2}

\* C5: an even-length valid-hex input of at least 2 octets that is not
\* classified as UDH-bearing, parsed with a supported encoding (for UCS2: on
\* a payload of even length), comes back as a standalone part: Standalone,
\* TotalParts = CurrentPart = 1, Reference = {0}, header fields 0 and
\* RawMessage the whole decoded octet sequence.
C5_StandaloneFields ==
    (/\ Called
     /\ ValidHexInput
     /\ Len(InputOctets) >= 2
     /\ ~IsUDH(InputOctets)
     /\ input.encoding \in SupportedEncodings
     /\ ~(input.encoding = UCS2 /\ Len(InputOctets) % 2 # 0)) =>
        /\ parsed.kind = "ok"
        /\ parsed.elem[1].Standalone
        /\ parsed.elem[1].TotalParts = 1 /\ parsed.elem[1].CurrentPart = 1
        /\ parsed.elem[1].Reference = <<0>>
        /\ parsed.elem[1].HeaderLength = 0 /\ parsed.elem[1].Element = 0
        /\ parsed.elem[1].ElementLength = 0
        /\ parsed.elem[1].RawMessage = InputOctets

---------------------------------------------------------------------------
(* udh.go:298-390: MessageFragmentations *)

\* the comparison function Sort hands to slices.SortFunc (udh.go:300-309),
\* with the compared field as a parameter: Sort compares the Element field
cmpField(a, b, field) ==
    IF b[field] > a[field] THEN -1
    ELSE IF a[field] > b[field] THEN 1
    ELSE 0

RECURSIVE insertLast(_, _, _)
\* the inner loop of the insertion sort: the new last element x moves left
\* while cmp(x, its left neighbour) < 0
insertLast(sorted, x, field) ==
    IF sorted # << >> /\ cmpField(x, sorted[Len(sorted)], field) < 0
    THEN Append(insertLast(SubSeq(sorted, 1, Len(sorted) - 1), x, field),
                sorted[Len(sorted)])
    ELSE Append(sorted, x)

RECURSIVE insertionSortCmpFunc(_, _)
\* insertionSortCmpFunc, the sort slices.SortFunc runs on a short slice
insertionSortCmpFunc(data, field) ==
    IF data = << >> THEN << >>
    ELSE insertLast(insertionSortCmpFunc(SubSeq(data, 1, Len(data) - 1), field),
                    data[Len(data)], field)

\* slices.SortFunc leaves the insertion sort above this length
maxInsertion == 12

\* data with the elements at the zero-based indices x and y exchanged
swapAt(data, x, y) ==
    [n \in 1..Len(data) |-> IF n = x + 1 THEN data[y + 1]
                            ELSE IF n = y + 1 THEN data[x + 1]
                            ELSE data[n]]

\* order2CmpFunc: the indices a, b ordered by their elements, and the count of
\* exchanges so far
order2CmpFunc(data, a, b, swaps, field) ==
    IF cmpField(At(data, b), At(data, a), field) < 0
    THEN [a |-> b, b |-> a, swaps |-> swaps + 1]
    ELSE [a |-> a, b |-> b, swaps |-> swaps]

\* medianCmpFunc: the index of the median of the elements at a, b, c
medianCmpFunc(data, a, b, c, field) ==
    LET s1 == order2CmpFunc(data, a, b, 0, field)
        s2 == order2CmpFunc(data, s1.b, c, s1.swaps, field)
        s3 == order2CmpFunc(data, s1.a, s2.a, s2.swaps, field)
    IN  [pivot |-> s3.b, swaps |-> s3.swaps]

\* choosePivotCmpFunc on a whole slice of 8 to 49 elements: the median of the
\* elements at l/4, 2*l/4, 3*l/4; no exchange among the three hints at a
\* sorted slice (at most 3 exchanges are counted, so never at a reversed one)
choosePivotCmpFunc(data, field) ==
    LET l == Len(data)
        m == medianCmpFunc(data, (l \div 4) * 1, (l \div 4) * 2, (l \div 4) * 3, field)
    IN  [pivot |-> m.pivot,
         hint |-> IF m.swaps = 0 THEN "increasing" ELSE "unknown"]

\* partialInsertionSortCmpFunc on fewer than 50 elements: nothing is moved,
\* and the answer is whether no element is smaller than the one before it
partialInsertionSortCmpFunc(data, field) ==
    \A i \in 2..Len(data) : ~(cmpField(data[i], data[i - 1], field) < 0)

RECURSIVE scanUp(_, _, _, _)
\* for i <= j && cmp(data[i], data[a]) < 0 { i++ }, with a = 0
scanUp(data, i, j, field) ==
    IF i <= j /\ cmpField(At(data, i), At(data, 0), field) < 0
    THEN scanUp(data, i + 1, j, field)
    ELSE i

RECURSIVE scanDown(_, _, _, _)
\* for i <= j && !(cmp(data[j], data[a]) < 0) { j-- }, with a = 0
scanDown(data, i, j, field) ==
    IF i <= j /\ ~(cmpField(At(data, j), At(data, 0), field) < 0)
    THEN scanDown(data, i, j - 1, field)
    ELSE j

RECURSIVE partitionLoop(_, _, _, _)
\* the final loop of partitionCmpFunc and the move of the pivot to its place
partitionLoop(data, i, j, field) ==
    LET i2 == scanUp(data, i, j, field)
        j2 == scanDown(data, i2, j, field)
    IN  IF i2 > j2
        THEN [data |-> swapAt(data, j2, 0), mid |-> j2, alreadyPartitioned |-> FALSE]
        ELSE partitionLoop(swapAt(data, i2, j2), i2 + 1, j2 - 1, field)

\* partitionCmpFunc on a whole slice: the pivot goes to the front, the smaller
\* elements are exchanged to its left, the others to its right
partitionCmpFunc(data, pivot, field) ==
    LET d0 == swapAt(data, 0, pivot)
        i == scanUp(d0, 1, Len(d0) - 1, field)
        j == scanDown(d0, i, Len(d0) - 1, field)
    IN  IF i > j
        THEN [data |-> swapAt(d0, j, 0), mid |-> j, alreadyPartitioned |-> TRUE]
        ELSE partitionLoop(swapAt(d0, i, j), i + 1, j - 1, field)

\* pdqsortCmpFunc(data, 0, n, limit, cmp) as slices.SortFunc calls it, for the
\* slices of the model, which have at most maxInsertion + 1 elements: up to
\* maxInsertion the insertion sort; above it a slice found sorted is left
\* alone, any other is partitioned around the pivot and each side, which has
\* at most maxInsertion elements, is insertion sorted
pdqsortCmpFunc(data, field) ==
    IF Len(data) <= maxInsertion
    THEN insertionSortCmpFunc(data, field)
    ELSE LET c == choosePivotCmpFunc(data, field)
         IN  IF c.hint = "increasing" /\ partialInsertionSortCmpFunc(data, field)
             THEN data
             ELSE LET p == partitionCmpFunc(data, c.pivot, field)
                  IN  insertionSortCmpFunc(SubSeq(p.data, 1, p.mid), field)
                         \o <<p.data[p.mid + 1]>>
                         \o insertionSortCmpFunc(SubSeq(p.data, p.mid + 2, Len(p.data)), field)

\* MessageFragmentations.Sort: slices.SortFunc, in place, by the Element field
Sort(msgs) == pdqsortCmpFunc(msgs, "Element")

\* a mutant of HaveAllFragments: the count is compared with the first member's
\* CurrentPart instead of its TotalParts
HaveAllFragmentsByCurrentPart(msgs) ==
    IF Len(msgs) = 0 THEN FALSE
    ELSE IF msgs[1].Standalone THEN TRUE
    ELSE IF msgs[1].TotalParts = 0 /\ msgs[1].CurrentPart = 0 /\ Len(msgs[1].Message) > 0
    THEN TRUE
    ELSE Len(msgs) = msgs[1].CurrentPart

\* a mutant of HaveAllFragments: a standalone first member is counted like
\* any other
HaveAllFragmentsCountOnly(msgs) ==
    IF Len(msgs) = 0 THEN FALSE
    ELSE IF msgs[1].TotalParts = 0 /\ msgs[1].CurrentPart = 0 /\ Len(msgs[1].Message) > 0
    THEN TRUE
    ELSE Len(msgs) = msgs[1].TotalParts

\* a mutant of HaveAllFragments: a set with at least the declared number of
\* members is complete
HaveAllFragmentsAtLeast(msgs) ==
    IF Len(msgs) = 0 THEN FALSE
    ELSE IF msgs[1].Standalone THEN TRUE
    ELSE IF msgs[1].TotalParts = 0 /\ msgs[1].CurrentPart = 0 /\ Len(msgs[1].Message) > 0
    THEN TRUE
    ELSE Len(msgs) >= msgs[1].TotalParts

\* MessageFragmentations.HaveAllFragments (udh.go:313-330)
HaveAllFragments(msgs) ==
    IF Len(msgs) = 0 THEN FALSE
    ELSE IF msgs[1].Standalone THEN TRUE
    ELSE IF msgs[1].TotalParts = 0 /\ msgs[1].CurrentPart = 0 /\ Len(msgs[1].Message) > 0
    THEN TRUE
    ELSE Len(msgs) = msgs[1].TotalParts

\* MessageFragmentations.String (udh.go:335-345): the set is sorted in place,
\* then the members' texts are written one after the other
String(msgs) ==
    [msgs |-> Sort(msgs),
     text |-> Flatten([i \in 1..Len(msgs) |-> Sort(msgs)[i].Message])]

\* a mutant of AddMessageElements: the part is appended before the reference
\* is compared, so a rejected part stays in the set
AddMessageElementsAppendFirst(msgs, info) ==
    IF Len(msgs) = 0 \/ msgs[1].Reference = info.Reference
    THEN [msgs |-> Append(msgs, info), kind |-> "ok", err |-> "nil"]
    ELSE [msgs |-> Append(msgs, info), kind |-> "err", err |-> ErrInvalidReferenceNumber]

\* a mutant of AddMessageElements: the references are not compared
AddMessageElementsAnyReference(msgs, info) ==
    [msgs |-> Append(msgs, info), kind |-> "ok", err |-> "nil"]

\* MessageFragmentations.AddMessageElements (udh.go:365-379): the set after
\* the call and the error returned
AddMessageElements(msgs, info) ==
    IF Len(msgs) = 0
    THEN [msgs |-> Append(msgs, info), kind |-> "ok", err |-> "nil"]
    ELSE IF msgs[1].Reference = info.Reference
    THEN [msgs |-> Append(msgs, info), kind |-> "ok", err |-> "nil"]
    ELSE [msgs |-> msgs, kind |-> "err", err |-> ErrInvalidReferenceNumber]

\* MessageFragmentations.Add (udh.go:349-361)
Add(msgs, encoding, message) ==
    LET r == ParseElements(message, encoding)
    IN  IF r.kind # "ok"
        THEN [msgs |-> msgs, kind |-> r.kind, err |-> r.err]
        ELSE AddMessageElements(msgs, r.elem[1])

\* MessageFragmentations.Reference (udh.go:383-390)
Reference(msgs) == IF Len(msgs) = 0 THEN << >> ELSE msgs[1].Reference

---------------------------------------------------------------------------
(* FragSpec: one goroutine working on a fragment set of its own *)

\* the messages added to the set, as octets: parts 1/2 and 2/2 of reference
\* 0xA5, parts 1/3, 2/3, 3/3 of reference 0x12, a part of the 16-bit reference
\* 0x7539, a part of reference 0x00, the only part of reference 0x21, a
\* standalone text, and a header cut short
FragOctets ==
    { <<5, 0, 3, 165, 2, 1, 84, 104>>,
      <<5, 0, 3, 165, 2, 2, 101, 114>>,
      <<5, 0, 3, 33, 1, 1, 122>>,
      <<5, 0, 3, 18, 3, 1, 97>>,
      <<5, 0, 3, 18, 3, 2, 98>>,
      <<5, 0, 3, 18, 3, 3, 99>>,
      <<6, 8, 4, 117, 57, 2, 1, 100>>,
      <<5, 0, 3, 0, 2, 1, 120>>,
      <<119, 111>>,
      <<1, 0, 0>> }

FragTexts == {EncodeToString(b) : b \in FragOctets} \cup {<<"0", "5", "0">>}

FragEncodings == {GSM, ASCII, Binary8Bit1}

\* the parts a caller can hold: whatever ParseElements returned for these
FragParts ==
    {ParseElements(m, e).elem[1] :
        <<m, e>> \in {x \in FragTexts \X FragEncodings : ParseElements(x[1], x[2]).kind = "ok"}}

FragInit ==
    /\ frag = << >>
    /\ ret = NoRet
    /\ input = [encoding |-> GSM, msg |-> << >>]
    /\ parsed = NotParsed
    /\ StoreInit

\* frag.Add(encoding, message)
CallFragAdd(encoding, message) ==
    /\ Len(frag) < MaxFrag
    /\ LET r == Add(frag, encoding, message)
       IN  /\ frag' = r.msgs
           /\ ret' = [op |-> "Add", kind |-> r.kind, err |-> r.err, text |-> << >>]
    /\ UNCHANGED <<parseVars, storeVars>>

\* frag.AddMessageElements(info)
CallFragAddMessageElements(info) ==
    /\ Len(frag) < MaxFrag
    /\ LET r == AddMessageElements(frag, info)
       IN  /\ frag' = r.msgs
           /\ ret' = [op |-> "AddMessageElements", kind |-> r.kind, err |-> r.err,
                      text |-> << >>]
    /\ UNCHANGED <<parseVars, storeVars>>

\* frag.Sort()
CallFragSort ==
    /\ frag' = Sort(frag)
    /\ ret' = [op |-> "Sort", kind |-> "ok", err |-> "nil", text |-> << >>]
    /\ UNCHANGED <<parseVars, storeVars>>

\* frag.String()
CallFragString ==
    /\ frag' = String(frag).msgs
    /\ ret' = [op |-> "String", kind |-> "ok", err |-> "nil", text |-> String(frag).text]
    /\ UNCHANGED <<parseVars, storeVars>>

FragNext ==
    \/ \E e \in FragEncodings, m \in FragTexts : CallFragAdd(e, m)
    \/ \E info \in FragParts : CallFragAddMessageElements(info)
    \/ CallFragSort
    \/ CallFragString

FragSpec == FragInit /\ [][FragNext]_vars

---------------------------------------------------------------------------
(* Claims about the fragment set *)

\* the members' texts joined in ascending CurrentPart order
JoinByCurrentPart(msgs) ==
    LET ordered == insertionSortCmpFunc(msgs, "CurrentPart")
    IN  Flatten([i \in 1..Len(ordered) |-> ordered[i].Message])

\* the members are the parts of one message: pairwise different part numbers
DistinctCurrentParts(msgs) ==
    \A i, j \in 1..Len(msgs) : i # j => msgs[i].CurrentPart # msgs[j].CurrentPart

\* C1: for parts sharing one reference, added in any order, String() returns
\* the parts' decoded texts joined in ascending CurrentPart order.
C1_StringInCurrentPartOrder ==
    (ret.op = "String" /\ DistinctCurrentParts(frag)) =>
        ret.text = JoinByCurrentPart(frag)

\* three distinct non-standalone parts (or the first one or two of them) that
\* each declare TotalParts = 3
PartsOfThree(msgs) ==
    /\ Len(msgs) \in 1..3
    /\ \A i \in 1..Len(msgs) : ~msgs[i].Standalone /\ msgs[i].TotalParts = 3
    /\ \A i, j \in 1..Len(msgs) : i # j => msgs[i] # msgs[j]

\* C6: with three distinct non-standalone parts of one reference that declare
\* TotalParts = 3, added in any order, HaveAllFragments is false after the
\* first and the second add and true after the third.
C6_CompleteAfterThird ==
    PartsOfThree(frag) => (HaveAllFragments(frag) <=> Len(frag) = 3)

\* C6 witness: the third of three such parts has been added, the parts not in
\* part order, and the set is reported complete
C6_Witness ==
    /\ PartsOfThree(frag) /\ Len(frag) = 3
    /\ ret.op \in {"Add", "AddMessageElements"} /\ ret.kind = "ok"
    /\ frag[1].CurrentPart = 3 /\ frag[2].CurrentPart = 1 /\ frag[3].CurrentPart = 2
    /\ HaveAllFragments(frag)

---------------------------------------------------------------------------
(* udh.go:392-494: Messages, the store *)

\* a mutant of strRefer: the key is the first octet of the reference only
strReferFirstOctet(info) ==
    IF info.Reference = << >> THEN << >> ELSE <<info.Reference[1]>>

\* strRefer := string(info.Reference) (udh.go:411, 445): the key of a part
strRefer(info) == info.Reference

\* _, found := msgs.fragments[strRefer] (udh.go:413, 447)
lookup(frags, key) == key \in DOMAIN frags

\* udh.go:413-430 and 447-464, after the lookup gave found: the part is added
\* to the set found (in place, through the pointer), or to a new set that is
\* stored under the key when the add succeeded
storeInto(frags, found, info) ==
    LET key == strRefer(info)
    IN  IF found
        THEN LET r == AddMessageElements(frags[key], info)
             IN  [fragments |-> [frags EXCEPT ![key] = r.msgs],
                  kind |-> r.kind, err |-> r.err]
        ELSE LET r == AddMessageElements(<< >>, info)
             IN  IF r.kind # "ok"
                 THEN [fragments |-> frags, kind |-> r.kind, err |-> r.err]
                 ELSE [fragments |-> (key :> r.msgs) @@ frags,
                       kind |-> "ok", err |-> "nil"]

\* Messages.AddMessageElements between Lock and the deferred Unlock
MessagesAddMessageElements(frags, info) ==
    storeInto(frags, lookup(frags, strRefer(info)), info)

\* Messages.Add between Lock and the deferred Unlock
MessagesAdd(frags, encoding, message) ==
    LET r == ParseElements(message, encoding)
    IN  IF r.kind # "ok"
        THEN [fragments |-> frags, kind |-> r.kind, err |-> r.err]
        ELSE storeInto(frags, lookup(frags, strRefer(r.elem[1])), r.elem[1])

\* a mutant of CanLock: Lock never waits
CanLockAlways(p) == TRUE

\* msgs.mtx.Lock() returns only while no goroutine holds the mutex
CanLock(p) == mtx = 0

\* a mutant of deferUnlock: the early returns leave without unlocking
deferUnlockOnSuccessOnly(p) == IF loc[p].kind = "ok" THEN 0 ELSE mtx

\* defer msgs.mtx.Unlock(): the mutex after the call has left, on every
\* return path and when a panic unwinds the call
deferUnlock(p) == 0

---------------------------------------------------------------------------
(* Spec: goroutines calling the store concurrently.  A call is split at the *)
(* lock and between the map lookup and the map update, so that the mutex is *)
(* what keeps the calls' steps apart.  A panic inside a call runs the       *)
(* deferred Unlock and reaches the caller, which recovers it.               *)

\* the messages handed to Messages.Add: parts 1/2 and 2/2 of reference 0xA5,
\* a standalone text, the empty text (a part with no reference, stored under
\* the empty key), an odd-length text and a header cut short
StoreOctets ==
    { <<5, 0, 3, 165, 2, 1, 84, 104>>,
      <<5, 0, 3, 165, 2, 2, 101, 114>>,
      <<119, 111>>,
      << >>,
      <<1, 0, 0>> }

StoreAdds ==
    [encoding : {GSM}, msg : {EncodeToString(b) : b \in StoreOctets} \cup {<<"0", "5", "0">>}]
        \cup {[encoding |-> Binary8Bit1, msg |-> EncodeToString(<<119, 111>>)]}

\* the parts handed to Messages.AddMessageElements: a part of reference 0x00
\* and a part of the 16-bit reference 0x7539
StoreParts ==
    { ParseElements(EncodeToString(<<5, 0, 3, 0, 2, 1, 120>>), GSM).elem[1],
      ParseElements(EncodeToString(<<6, 8, 4, 117, 57, 2, 1, 100>>), GSM).elem[1] }

\* the references asked of GetMessageFragments
StoreReferences == {<<165>>, <<9>>}

\* what ParseElements returns for each of these calls (it reads nothing but
\* its arguments), computed once
StoreParsed == {[call |-> c, result |-> ParseElements(c.msg, c.encoding)] : c \in StoreAdds}

Init ==
    /\ input = [encoding |-> GSM, msg |-> << >>]
    /\ parsed = NotParsed
    /\ frag = << >>
    /\ ret = NoRet
    /\ StoreInit

\* a goroutine enters a store call
Enter(p, call) ==
    /\ pc[p] = "idle"
    /\ ncalls < MaxCalls
    /\ ncalls' = ncalls + 1
    /\ op' = [op EXCEPT ![p] = call]
    /\ loc' = [loc EXCEPT ![p] = NoLocals]
    /\ pc' = [pc EXCEPT ![p] = "lock"]
    /\ UNCHANGED <<parseVars, fragVars, sret, fragments, mtx, added>>

\* msgs.Add(encoding, message) is called
CallAdd(p, encoding, message) ==
    Enter(p, [NoCall EXCEPT !.name = "Add", !.encoding = encoding, !.msg = message])

\* msgs.AddMessageElements(info) is called
CallAddMessageElements(p, info) ==
    Enter(p, [NoCall EXCEPT !.name = "AddMessageElements", !.info = <<info>>])

\* msgs.GetMessageFragments(reference) is called
CallGetMessageFragments(p, reference) ==
    Enter(p, [NoCall EXCEPT !.name = "GetMessageFragments", !.reference = reference])

\* msgs.ListAll() is called
CallListAll(p) ==
    Enter(p, [NoCall EXCEPT !.name = "ListAll"])

\* msgs.mtx.Lock()
Lock(p) ==
    /\ pc[p] = "lock"
    /\ CanLock(p)
    /\ mtx' = p
    /\ pc' = [pc EXCEPT ![p] = "locked"]
    /\ UNCHANGED <<parseVars, fragVars, sret, fragments, op, loc, ncalls, added>>

\* Add, udh.go:440-447: the message is parsed; a failure leaves through the
\* deferred Unlock, otherwise the key is looked up
AddParse(p) ==
    /\ pc[p] = "locked" /\ op[p].name = "Add"
    /\ \E x \in StoreParsed :
          /\ x.call = [encoding |-> op[p].encoding, msg |-> op[p].msg]
          /\ IF x.result.kind # "ok"
             THEN /\ loc' = [loc EXCEPT ![p] = [NoLocals EXCEPT !.kind = x.result.kind,
                                                                !.err = x.result.err]]
                  /\ pc' = [pc EXCEPT ![p] = "unlock"]
             ELSE /\ loc' = [loc EXCEPT ![p] =
                                [NoLocals EXCEPT
                                    !.info = x.result.elem,
                                    !.found = lookup(fragments, strRefer(x.result.elem[1]))]]
                  /\ pc' = [pc EXCEPT ![p] = "write"]
    /\ UNCHANGED <<parseVars, fragVars, sret, fragments, mtx, op, ncalls, added>>

\* AddMessageElements, udh.go:411-413: the key is looked up
AddMessageElementsLookup(p) ==
    /\ pc[p] = "locked" /\ op[p].name = "AddMessageElements"
    /\ loc' = [loc EXCEPT ![p] =
                  [NoLocals EXCEPT !.info = op[p].info,
                                   !.found = lookup(fragments, strRefer(op[p].info[1]))]]
    /\ pc' = [pc EXCEPT ![p] = "write"]
    /\ UNCHANGED <<parseVars, fragVars, sret, fragments, mtx, op, ncalls, added>>

\* Add and AddMessageElements after the lookup (udh.go:413-430, 447-464)
Write(p) ==
    /\ pc[p] = "write"
    /\ \E r \in {storeInto(fragments, loc[p].found, loc[p].info[1])} :
           /\ fragments' = r.fragments
           /\ loc' = [loc EXCEPT ![p].kind = r.kind, ![p].err = r.err]
    /\ pc' = [pc EXCEPT ![p] = "unlock"]
    /\ UNCHANGED <<parseVars, fragVars, sret, mtx, op, ncalls, added>>

\* GetMessageFragments, udh.go:473-476: unknown references return nil
GetLookup(p) ==
    /\ pc[p] = "locked" /\ op[p].name = "GetMessageFragments"
    /\ loc' = [loc EXCEPT ![p] = [NoLocals EXCEPT !.found = lookup(fragments, op[p].reference)]]
    /\ pc' = [pc EXCEPT ![p] = IF lookup(fragments, op[p].reference) THEN "sort" ELSE "unlock"]
    /\ UNCHANGED <<parseVars, fragVars, sret, fragments, mtx, op, ncalls, added>>

\* GetMessageFragments, udh.go:478-479: the set found is sorted in place
GetSort(p) ==
    /\ pc[p] = "sort"
    /\ fragments' = [fragments EXCEPT ![op[p].reference] = Sort(@)]
    /\ pc' = [pc EXCEPT ![p] = "unlock"]
    /\ UNCHANGED <<parseVars, fragVars, sret, mtx, op, loc, ncalls, added>>

\* ListAll, udh.go:487-493: the sets are collected, the store is not changed
ListAllCollect(p) ==
    /\ pc[p] = "locked" /\ op[p].name = "ListAll"
    /\ pc' = [pc EXCEPT ![p] = "unlock"]
    /\ UNCHANGED <<parseVars, fragVars, sret, fragments, mtx, op, loc, ncalls, added>>

\* the deferred Unlock runs and the call leaves; the part of an add that
\* returned nil is recorded
Unlock(p) ==
    /\ pc[p] = "unlock"
    /\ mtx' = deferUnlock(p)
    /\ added' = IF op[p].name \in {"Add", "AddMessageElements"} /\ loc[p].kind = "ok"
                THEN Append(added, loc[p].info[1])
                ELSE added
    /\ pc' = [pc EXCEPT ![p] = "idle"]
    /\ op' = [op EXCEPT ![p] = NoCall]
    /\ loc' = [loc EXCEPT ![p] = [NoLocals EXCEPT !.kind = loc[p].kind, !.err = loc[p].err]]
    /\ UNCHANGED <<parseVars, fragVars, sret, fragments, ncalls>>

Next ==
    \/ \E p \in Procs, c \in StoreAdds : CallAdd(p, c.encoding, c.msg)
    \/ \E p \in Procs, info \in StoreParts : CallAddMessageElements(p, info)
    \/ \E p \in Procs, r \in StoreReferences : CallGetMessageFragments(p, r)
    \/ \E p \in Procs : CallListAll(p)
    \/ \E p \in Procs : Lock(p)
    \/ \E p \in Procs : AddParse(p)
    \/ \E p \in Procs : AddMessageElementsLookup(p)
    \/ \E p \in Procs : Write(p)
    \/ \E p \in Procs : GetLookup(p)
    \/ \E p \in Procs : GetSort(p)
    \/ \E p \in Procs : ListAllCollect(p)
    \/ \E p \in Procs : Unlock(p)

Spec == Init /\ [][Next]_vars

\* the steps of a goroutine inside a call: taking the mutex, and what
\* follows once it holds it
Step(p) ==
    \/ Lock(p)
    \/ AddParse(p) \/ AddMessageElementsLookup(p) \/ Write(p)
    \/ GetLookup(p) \/ GetSort(p) \/ ListAllCollect(p) \/ Unlock(p)

\* Spec with goroutines that keep running and a fair mutex: a goroutine that
\* finds the mutex free again and again gets it (strong fairness; the steps
\* after Lock stay enabled until taken)
FairSpec == Spec /\ \A p \in Procs : SF_vars(Step(p))

---------------------------------------------------------------------------
(* SeqSpec: one goroutine that owns a fragment set and calls the store; with *)
(* a single caller a store call runs from Lock to Unlock undisturbed         *)

\* the adds of the single caller: parts 1/2 and 2/2 of reference 0xA5, an
\* odd-length text, a header cut short, a UCS2 payload of odd length and an
\* 8-bit binary payload
SeqAdds ==
    [encoding : {GSM},
     msg : {EncodeToString(<<5, 0, 3, 165, 2, 1, 84, 104>>),
            EncodeToString(<<5, 0, 3, 165, 2, 2, 101, 114>>),
            EncodeToString(<<1, 0, 0>>),
            <<"0", "5", "0">>}]
        \cup {[encoding |-> UCS2, msg |-> EncodeToString(<<119, 111, 114>>)],
              [encoding |-> Binary8Bit1, msg |-> EncodeToString(<<119, 111>>)]}

\* the part of the 16-bit reference 0x7539, handed over as MessageElements
SeqParts == {ParseElements(EncodeToString(<<6, 8, 4, 117, 57, 2, 1, 100>>), GSM).elem[1]}

SeqInit == Init

\* msgs.Add(encoding, message), from Lock to the deferred Unlock
SeqMessagesAdd(encoding, message) ==
    /\ ncalls < MaxCalls
    /\ CanLock(1)
    /\ LET r == MessagesAdd(fragments, encoding, message)
       IN  /\ fragments' = r.fragments
           /\ sret' = [op |-> "Add", kind |-> r.kind, err |-> r.err, text |-> << >>]
    /\ mtx' = deferUnlock(1)
    /\ ncalls' = ncalls + 1
    /\ UNCHANGED <<parseVars, fragVars, pc, op, loc, added>>

\* msgs.AddMessageElements(info), from Lock to the deferred Unlock
SeqMessagesAddMessageElements(info) ==
    /\ ncalls < MaxCalls
    /\ CanLock(1)
    /\ LET r == MessagesAddMessageElements(fragments, info)
       IN  /\ fragments' = r.fragments
           /\ sret' = [op |-> "AddMessageElements", kind |-> r.kind, err |-> r.err,
                       text |-> << >>]
    /\ mtx' = deferUnlock(1)
    /\ ncalls' = ncalls + 1
    /\ UNCHANGED <<parseVars, fragVars, pc, op, loc, added>>

SeqNext ==
    \/ \E c \in SeqAdds : CallFragAdd(c.encoding, c.msg)
    \/ \E info \in SeqParts \cup {frag[i] : i \in 1..Len(frag)} :
          CallFragAddMessageElements(info)
    \/ \E c \in SeqAdds : SeqMessagesAdd(c.encoding, c.msg)
    \/ \E info \in SeqParts \cup {frag[i] : i \in 1..Len(frag)} :
          SeqMessagesAddMessageElements(info)

SeqSpec == SeqInit /\ [][SeqNext]_vars

---------------------------------------------------------------------------
(* Claims about rejected adds and about the store *)

\* C7: a rejected add changes nothing.  AddMessageElements on a non-empty set
\* with a part whose Reference differs from the first member's fails with
\* ErrInvalidReferenceNumber and returns the set as it was; and a call on the
\* fragment set or on the store that does not return nil (reference, parse or
\* decode failure) leaves the set's members and order, the store's keys and
\* every stored set unchanged.
C7_RejectedAddChangesNothing ==
    /\ [](\A info \in SeqParts \cup {frag[i] : i \in 1..Len(frag)}
                      \cup UNION {{fragments[k][i] : i \in 1..Len(fragments[k])} :
                                     k \in DOMAIN fragments} :
             (frag # << >> /\ info.Reference # frag[1].Reference) =>
                AddMessageElements(frag, info) =
                    [msgs |-> frag, kind |-> "err", err |-> ErrInvalidReferenceNumber])
    /\ [][ /\ ret'.kind # "ok" => frag' = frag
           /\ sret'.kind # "ok" => fragments' = fragments ]_vars

\* C7 witness: the last add to the non-empty fragment set was rejected for its
\* reference, and the last add to the non-empty store was rejected too
C7_Witness ==
    /\ frag # << >> /\ ret.op = "AddMessageElements" /\ ret.err = ErrInvalidReferenceNumber
    /\ fragments # << >> /\ sret.op = "Add" /\ sret.kind = "err"

\* every goroutine is outside the store
AllReturned == \A p \in Procs : pc[p] = "idle"

\* how often x occurs in the sequence s
Count(x, s) == Cardinality({i \in 1..Len(s) : s[i] = x})

\* the number of members of all stored sets together
StoredMembers ==
    Cardinality(UNION {{<<k, i>> : i \in 1..Len(fragments[k])} : k \in DOMAIN fragments})

\* C8: no part is lost or duplicated under concurrent calls: when all calls
\* have returned, the part of every add that returned nil is in the set keyed
\* by its reference, as often as it was added, and in no other set, and the
\* stored members are as many as the successful adds.
C8_NoPartLostOrDuplicated ==
    AllReturned =>
        /\ StoredMembers = Len(added)
        /\ \A n \in 1..Len(added) :
              /\ added[n].Reference \in DOMAIN fragments
              /\ Count(added[n], fragments[added[n].Reference]) = Count(added[n], added)
              /\ \A k \in DOMAIN fragments \ {added[n].Reference} :
                    Count(added[n], fragments[k]) = 0

\* C8 witness: all calls have returned, one of them was rejected, and two
\* successful adds met in one set
C8_Witness ==
    /\ AllReturned
    /\ ncalls >= 3
    /\ Len(added) = 2
    /\ added[1].Reference = added[2].Reference
    /\ Len(fragments[added[1].Reference]) = 2

\* C9: the mutex is held only by a goroutine that is inside a store call and
\* past Lock, so every way out of a call (nil, an error, a panic unwinding
\* through the deferred Unlock) has released it; and with a fair mutex every
\* store call that was started leaves the store again.
C9_EveryCallReturns ==
    /\ [](mtx # 0 => pc[mtx] \in {"locked", "write", "sort", "unlock"})
    /\ \A p \in Procs : (pc[p] # "idle") ~> (pc[p] = "idle")

\* C9 witness: a call has left through an early return (an error), and
\* afterwards another goroutine holds the mutex
C9_Witness ==
    \E p, q \in Procs :
        /\ p # q
        /\ pc[p] = "idle" /\ loc[p].kind = "err"
        /\ pc[q] = "locked" /\ mtx = q

\* C10: every key of the store maps to a non-empty set, and every member of
\* that set has the key as its Reference: equal references live in one set.
C10_KeysMatchMembers ==
    \A k \in DOMAIN fragments :
        /\ fragments[k] # << >>
        /\ \A i \in 1..Len(fragments[k]) : fragments[k][i].Reference = k

\* C10 witness: the store holds a set of two members, and a
\* GetMessageFragments has found and sorted a set
C10_Witness ==
    /\ \E k \in DOMAIN fragments : Len(fragments[k]) = 2
    /\ \E p \in Procs : pc[p] = "unlock" /\ op[p].name = "GetMessageFragments"
                        /\ loc[p].found

---------------------------------------------------------------------------
(* SortSpec: a caller fills a fragment set with parts it built itself (the   *)
(* fields of MessageElements are exported, and AddMessageElements takes any  *)
(* part whose Reference matches), one part more than the insertion sort of   *)
(* slices.SortFunc handles, then sorts and prints it                         *)

\* the n-th part the caller builds: reference {0}, the part number n, a text
\* of one letter that tells the parts apart, and the identifier element
CallerPart(n, element) ==
    [ZeroElements EXCEPT !.Element = element,
                         !.Reference = <<0>>,
                         !.TotalParts = maxInsertion + 1,
                         !.CurrentPart = n,
                         !.RawMessage = <<96 + n>>,
                         !.Message = <<96 + n>>]

\* frag.AddMessageElements(info) by this caller
SortAddMessageElements(info) ==
    /\ Len(frag) <= maxInsertion
    /\ LET r == AddMessageElements(frag, info)
       IN  /\ frag' = r.msgs
           /\ ret' = [op |-> "AddMessageElements", kind |-> r.kind, err |-> r.err,
                      text |-> << >>]
    /\ UNCHANGED <<parseVars, storeVars>>

SortInit == FragInit

\* the identifiers the caller may give its next part
CallerElements ==
    IF Cardinality({i \in 1..Len(frag) : frag[i].Element = 8}) < MaxOtherElement
    THEN {0, 8}
    ELSE {0}

SortNext ==
    \/ \E element \in CallerElements :
          SortAddMessageElements(CallerPart(Len(frag) + 1, element))
    \/ CallFragSort
    \/ CallFragString

SortSpec == SortInit /\ [][SortNext]_vars

\* the members ascend by Element
SortedByElement(msgs) ==
    \A i \in 2..Len(msgs) : msgs[i - 1].Element <= msgs[i].Element

\* C11: Sort orders the members ascending by Element and is stable for a set
\* of any size: a Sort call leaves the set as the stable sort by Element of
\* what it was, String returns the texts in that order, and sorting the result
\* again changes nothing.
C11_SortStableAndIdempotent ==
    [][ /\ ret'.op \in {"Sort", "String"} =>
              /\ SortedByElement(frag')
              /\ frag' = insertionSortCmpFunc(frag, "Element")
              /\ Sort(frag') = frag'
        /\ ret'.op = "String" =>
              ret'.text = Flatten([i \in 1..Len(frag) |->
                                     insertionSortCmpFunc(frag, "Element")[i].Message])
      ]_vars

---------------------------------------------------------------------------
(* OrderSpec: one goroutine that fills a fragment set of its own and a store *)
(* with parts ParseElements returned, and sorts, prints and fetches them     *)

\* the adds of this caller: two standalone texts, a part of the 8-bit
\* reference 0x00, a part of the 16-bit reference 0x7539 and the empty text
OrderAdds ==
    [encoding : {GSM},
     msg : {EncodeToString(<<119, 111>>),
            EncodeToString(<<104, 105>>),
            EncodeToString(<<5, 0, 3, 0, 2, 1, 120>>),
            EncodeToString(<<6, 8, 4, 117, 57, 2, 1, 100>>),
            << >>}]

\* those of them it also adds to its own set: one standalone text and the
\* parts of the two references
OrderFragAdds ==
    {c \in OrderAdds : c.msg \in {EncodeToString(<<119, 111>>),
                                   EncodeToString(<<5, 0, 3, 0, 2, 1, 120>>),
                                   EncodeToString(<<6, 8, 4, 117, 57, 2, 1, 100>>)}}

\* the references this caller asks the store for
OrderReferences == {<<0>>, <<117, 57>>}

\* msgs.GetMessageFragments(reference), from Lock to the deferred Unlock: the
\* set found is sorted in place
SeqGetMessageFragments(reference) ==
    /\ ncalls < MaxCalls
    /\ CanLock(1)
    /\ fragments' = IF lookup(fragments, reference)
                    THEN [fragments EXCEPT ![reference] = Sort(@)]
                    ELSE fragments
    /\ sret' = [op |-> "GetMessageFragments", kind |-> "ok", err |-> "nil", text |-> << >>]
    /\ mtx' = deferUnlock(1)
    /\ ncalls' = ncalls + 1
    /\ UNCHANGED <<parseVars, fragVars, pc, op, loc, added>>

OrderInit == Init

OrderNext ==
    \/ \E c \in OrderFragAdds : CallFragAdd(c.encoding, c.msg)
    \/ CallFragSort
    \/ CallFragString
    \/ \E c \in OrderAdds : SeqMessagesAdd(c.encoding, c.msg)
    \/ \E r \in OrderReferences : SeqGetMessageFragments(r)

OrderSpec == OrderInit /\ [][OrderNext]_vars

\* all members of the set carry one Element value, the one that goes with the
\* length of their reference: 0x08 with 2 octets, 0x00 with 0 or 1
OneElement(msgs) ==
    \A i \in 1..Len(msgs) :
        /\ msgs[i].Element = msgs[1].Element
        /\ msgs[i].Element = (IF Len(msgs[i].Reference) = 2 THEN 8 ELSE 0)

---------------------------------------------------------------------------
(* Claims about completeness after further adds *)

\* the first member is a non-standalone part that declares at least one part
FirstDeclaresParts(msgs) ==
    msgs # << >> /\ ~msgs[1].Standalone /\ msgs[1].TotalParts >= 1

\* C13: completeness is not preserved by later adds.  For a set whose first
\* member is non-standalone and declares TotalParts = n >= 1, HaveAllFragments
\* is true with n members and false with more; and adding one more part of the
\* same reference to the set of n members succeeds and gives a set that is
\* reported incomplete.
C13_CompletenessLostByLaterAdd ==
    FirstDeclaresParts(frag) =>
        /\ HaveAllFragments(frag) <=> (Len(frag) = frag[1].TotalParts)
        /\ Len(frag) > frag[1].TotalParts => ~HaveAllFragments(frag)
        /\ Len(frag) = frag[1].TotalParts =>
              \A info \in FragParts :
                  info.Reference = frag[1].Reference =>
                      /\ AddMessageElements(frag, info).kind = "ok"
                      /\ Len(AddMessageElements(frag, info).msgs) = Len(frag) + 1
                      /\ ~HaveAllFragments(AddMessageElements(frag, info).msgs)

\* C13 witness: the only part of a one-part message was added three times,
\* the last add succeeded, and the set of three is reported incomplete
C13_Witness ==
    /\ FirstDeclaresParts(frag) /\ frag[1].TotalParts = 1
    /\ Len(frag) = 3 /\ frag[2] = frag[1] /\ frag[3] = frag[1]
    /\ ret.op = "Add" /\ ret.kind = "ok"
    /\ HaveAllFragments(SubSeq(frag, 1, 1))
    /\ ~HaveAllFragments(SubSeq(frag, 1, 2))
    /\ ~HaveAllFragments(frag)

---------------------------------------------------------------------------
(* Claims about standalone messages in the store *)

\* the stored set of the key, the empty set when the key is unknown
StoredSet(frags, key) == IF lookup(frags, key) THEN frags[key] ELSE << >>

\* the texts of the members in the order they have in the set
JoinInOrder(msgs) == Flatten([i \in 1..Len(msgs) |-> msgs[i].Message])

\* C14: standalone messages are not kept apart in the store.  Every
\* standalone part and every part of the 8-bit reference 0x00 is stored in
\* the one set keyed {0}, at its end; and while the first member of that set
\* is standalone the set is reported complete at every size and its String()
\* is the texts of all its members in stored order.
C14_StandaloneShareOneSet ==
    /\ \A k \in DOMAIN fragments : \A i \in 1..Len(fragments[k]) :
          (fragments[k][i].Standalone \/ fragments[k][i].Reference = <<0>>) => k = <<0>>
    /\ \A c \in OrderAdds :
          LET r == ParseElements(c.msg, c.encoding)
          IN  (r.kind = "ok" /\ (r.elem[1].Standalone \/ r.elem[1].Reference = <<0>>)) =>
                  /\ r.elem[1].Reference = <<0>>
                  /\ MessagesAdd(fragments, c.encoding, c.msg).kind = "ok"
                  /\ MessagesAdd(fragments, c.encoding, c.msg).fragments =
                        (<<0>> :> Append(StoredSet(fragments, <<0>>), r.elem[1])) @@ fragments
    /\ (lookup(fragments, <<0>>) /\ fragments[<<0>>][1].Standalone) =>
          /\ HaveAllFragments(fragments[<<0>>])
          /\ String(fragments[<<0>>]).text = JoinInOrder(fragments[<<0>>])

\* C14 witness: two different standalone texts and a part of the 8-bit
\* reference 0x00 were added, and the set keyed {0} holds the three of them,
\* a standalone text first
C14_Witness ==
    /\ sret.op = "Add" /\ sret.kind = "ok"
    /\ lookup(fragments, <<0>>) /\ Len(fragments[<<0>>]) = 3
    /\ fragments[<<0>>][1].Standalone /\ fragments[<<0>>][2].Standalone
    /\ fragments[<<0>>][1] # fragments[<<0>>][2]
    /\ ~fragments[<<0>>][3].Standalone
    /\ HaveAllFragments(fragments[<<0>>])
    /\ Len(String(fragments[<<0>>]).text) = 5

---------------------------------------------------------------------------
(* Claims about the header-length check *)

\* the first octet of the input is larger than the number of octets after it
FirstOctetExceedsRest(binary) ==
    Len(binary) >= 2 /\ At(binary, 0) > Len(binary) - 1

\* C15: ParseElements never returns ErrUDHLengthExceedsInputLength, for the
\* check L+1 > len(binary) is reached only when L < len(binary)-1; and an
\* input whose first octet is larger than the number of remaining octets is
\* classified as standalone text: it is not rejected for its header, and the
\* part returned for it is standalone with the whole input as payload.
C15_HeaderLengthErrorUnreachable ==
    Called =>
        /\ parsed.err # ErrUDHLengthExceedsInputLength
        /\ (ValidHexInput /\ FirstOctetExceedsRest(InputOctets)) =>
              /\ ~IsUDH(InputOctets)
              /\ parseHeader(InputOctets, input.encoding).kind = "ok"
              /\ parseHeader(InputOctets, input.encoding).elem[1].Standalone
              /\ parsed.kind = "ok" =>
                    (parsed.elem[1].Standalone /\ parsed.elem[1].RawMessage = InputOctets)

\* C15 witness: the octets 09 01 41 (a header length of 9 with 2 octets
\* left) were parsed and came back as a standalone part
C15_Witness ==
    /\ Called /\ ValidHexInput
    /\ InputOctets = <<9, 1, 65>>
    /\ FirstOctetExceedsRest(InputOctets)
    /\ parsed.kind = "ok" /\ parsed.elem[1].Standalone
    /\ parsed.elem[1].RawMessage = <<9, 1, 65>>

===========================================================================
